---- MODULE Spec2Model ----
(***************************************************************************)
(* security_monkey.task_scheduler.tasks: the Celery task executors         *)
(* (task_account_tech, task_audit), the change finder (find_changes), the  *)
(* batch consumer (batch_logic), the audit sweep (audit_changes,           *)
(* _audit_changes, _audit_specific_changes) and the scheduler bootstrapper *)
(* (setup_the_tasks).                                                      *)
(*                                                                         *)
(* Spec      one dispatched task message, executed step by step by one     *)
(*           worker, every collaborator call free to return or to raise.   *)
(* SpecBoot  bootstrapper passes over a changing account topology, the     *)
(*           broker queue and the beat schedule.                           *)
(* SpecBatch the batch consumer under the worker's progress.               *)
(* SpecWorkers  one bootstrapper pass, the beat sending the periodic       *)
(*           messages, and a pool of workers executing task bodies.        *)
(***************************************************************************)
EXTENDS Naturals, Sequences, FiniteSets, TLC

(***************************************************************************)
(* Bounds of the model.                                                    *)
(***************************************************************************)
MaxPages == 2
MaxAuditors == 2
MaxPending == 2

(***************************************************************************)
(* Program constants.                                                      *)
(***************************************************************************)
max_retries == 3

Techs == {"iamrole", "s3", "sg"}
TechOrder == <<"iamrole", "s3", "sg">>

\* b depends on a is the pair <<b, a>>
DepChoices ==
    { {},
      {<<"s3", "iamrole">>, <<"sg", "s3">>},
      {<<"sg", "iamrole">>} }

\* OperationalError, InvalidRequestError, StatementError are "db"
Faults == {"db", "other"}
Outcomes == {"ok"} \cup Faults

\* except clauses that catch every exception
DbErrorsAndOthers == {"db", "other"}

\* except (OperationalError, InvalidRequestError, StatementError)
DbErrors == {"db"}

VARIABLES
    batch,          \* monitor.batch_support, per technology
    deps,           \* the monitors' dependency relation
    nAud,           \* len(monitor.auditors)
    req,            \* the dispatched task: [task, tech]
    retries,        \* self.request.retries
    executions,     \* how many times the task body was entered
    pc,             \* the worker's position
    log,            \* the collaborator calls of the current execution
    session,        \* db.session: "idle", "open" or "poisoned"
    exc,            \* the exception in flight: "none", "db", "other"
    fc,             \* find_changes: "no", "in", "returned", "raised"
    mons,           \* find_changes: monitors still to watch
    sweep,          \* audit_changes: monitors still to audit
    send_report,    \* audit_changes' send_report argument
    aud,            \* the auditor the running loop is at (1-based)
    pages,          \* pages fetched by the running batch_logic
    done_slurping,  \* current_watcher.done_slurping
    accounts,       \* the Account table: [active, third_party] per account
    has_watcher,    \* whether the technology's monitor has a watcher
    queue,          \* the broker: task messages waiting to execute
    purged,         \* what CELERY.control.purge() returned: messages discarded
    beat,           \* sender's periodic schedule
    bootPc,         \* setup_the_tasks' position
    bootLog,        \* the calls of the current bootstrapper pass
    todoAccounts,   \* setup_the_tasks: accounts still to schedule
    todoMons,       \* setup_the_tasks: monitors of the account still to schedule
    running,        \* per worker: the message whose task body it is executing
    retry_queue     \* messages self.retry has re-sent, with their retry count

cycleVars ==
    <<batch, deps, nAud, req, retries, executions, pc, log, session,
      exc, fc, mons, sweep, send_report, aud, pages, done_slurping>>

cfgVars == <<batch, deps, nAud, req>>

workerVars == <<running, retry_queue>>

bootVars ==
    <<accounts, has_watcher, queue, purged, beat, bootPc, bootLog, todoAccounts,
      todoMons, workerVars>>

vars == <<cycleVars, bootVars>>

(***************************************************************************)
(* Helpers.                                                                *)
(***************************************************************************)
\* one collaborator call, as the log records it
Ev(op, arg, n, sr) == [op |-> op, arg |-> arg, n |-> n, sr |-> sr]

\* what a call leaves in the log: the call, and the exception it raised
Called(ev, o) == IF o = "ok" THEN <<ev>> ELSE <<ev, Ev("raises", o, 0, FALSE)>>

\* a call that goes through db.session opens it
Touch(s) == IF s = "idle" THEN "open" ELSE s

\* a storage fault leaves the session unusable until it is reset
AfterFault(s, kind) == IF kind \in DbErrors THEN "poisoned" ELSE s

\* get_monitors(account_name, [monitor_name], debug)
get_monitors(tech) == <<tech>>

RECURSIVE Closure(_, _)
Closure(S, d) ==
    LET T == S \cup {p[1] : p \in {q \in d : q[2] \in S}}
    IN  IF T = S THEN S ELSE Closure(T, d)

\* get_monitors_and_dependencies(account, monitor_names, debug)
get_monitors_and_dependencies(tech, d) ==
    SelectSeq(TechOrder, LAMBDA t : t \in Closure({tech}, d))

\* a sweep that audits batch-supporting monitors as well
ShouldSkipNever(batch_support, skip_batch) == FALSE

\* audit_changes: "if monitor.batch_support and skip_batch: continue"
ShouldSkip(batch_support, skip_batch) == batch_support /\ skip_batch

\* audit_changes(accounts, monitor_names, send_report, debug=True, skip_batch=True)
skip_batch_default == TRUE

\* a batch_logic that goes on paging whatever the first fetch reported
NothingFetchedNever(exception_map_len) == FALSE

\* batch_logic: "if len(exception_map) > 0"
NothingFetched(exception_map_len) == exception_map_len > 0

\* batch_logic: the region of the first failing location
RegionOf(location_len) == IF location_len > 2 THEN "region" ELSE "unknown"

\* the calls one auditor can fail in
Stages(sr) == {"auditor"} \cup (IF sr THEN {"report"} ELSE {})

AuditorOutcomes(sr) ==
    {[kind |-> "ok", at |-> "-"]}
        \cup {[kind |-> k, at |-> a] : k \in Faults, a \in Stages(sr)}

\* _audit_changes / _audit_specific_changes, the body of "for au in auditors":
\* au.items = ...; au.audit_objects(); au.save_issues();
\* if send_report: create_report, email_report; if jirasync: sync_issues.
\* `at` is the stage that raised ("-": none did): "auditor" is a fault before
\* any report is rendered, "report" one in or after create_report (the
\* report stage or the issue-tracker sync that follows it).
AuditorEvents(m, i, sr, at) ==
    <<Ev("auditor", m, i, sr)>>
        \o (IF sr /\ at # "auditor" THEN <<Ev("report", m, i, sr)>> ELSE <<>>)

\* an except clause that resets the session and records nothing
AuditExceptNoRecord == <<Ev("remove", "-", 0, FALSE)>>

\* the except clause of _audit_changes / _audit_specific_changes
AuditExcept == <<Ev("remove", "-", 0, FALSE),
                 Ev("store_exception", "scheduler-audit-changes", 0, FALSE)>>

\* every task's exception handled as the watch task's
HandlerWatchOnly(task) == "reporter_except"

\* where an exception that no inner try catches lands
Handler(task) ==
    IF task = "task_account_tech" THEN "reporter_except" ELSE "task_audit_except"

\* a retry test that is off by one
CanRetryInclusive(r) == r <= max_retries

\* self.retry(exc=e) under max_retries: a new execution, or giving up
CanRetry(r) == r < max_retries

AccountOrder == <<"prod", "dev">>
AccountNames == {"prod", "dev"}

\* the worker pool
Workers == {"w1", "w2"}

\* a worker that is executing nothing
Idle == [msg |-> [task |-> "-", account |-> "-", tech |-> "-"], retries |-> 0]

NoWorkers ==
    /\ running = [w \in Workers |-> Idle]
    /\ retry_queue = <<>>

\* no bootstrapper pass has run
BootOff ==
    /\ accounts = [a \in AccountNames |-> [active |-> FALSE, third_party |-> FALSE]]
    /\ has_watcher = [t \in Techs |-> TRUE]
    /\ queue = <<>>
    /\ purged = 0
    /\ beat = {}
    /\ bootPc = "off"
    /\ bootLog = <<>>
    /\ todoAccounts = <<>>
    /\ todoMons = <<>>
    /\ NoWorkers

(***************************************************************************)
(* Initial states: one dispatched message, any monitor topology.  A task   *)
(* reads only the monitors of its technology's dependency closure; the     *)
(* batch_support of the others is left at False.                           *)
(***************************************************************************)
InitCycle ==
    /\ batch \in [Techs -> BOOLEAN]
    /\ deps \in DepChoices
    /\ nAud \in 0..MaxAuditors
    /\ req \in [task : {"task_account_tech", "task_audit"}, tech : Techs]
    /\ \A t \in Techs \ Closure({req.tech}, deps) : ~batch[t]
    /\ retries = 0
    /\ executions = 0
    /\ pc = "start"
    /\ log = <<>>
    /\ session = "idle"
    /\ exc = "none"
    /\ fc = "no"
    /\ mons = <<>>
    /\ sweep = <<>>
    /\ send_report = FALSE
    /\ aud = 0
    /\ pages = 0
    /\ done_slurping = FALSE
    /\ BootOff

\* an exception leaves the running call and travels to its handler
Raise(kind) ==
    /\ exc' = kind
    /\ session' = AfterFault(session, kind)
    /\ pc' = Handler(req.task)
    /\ fc' = IF fc = "in" THEN "raised" ELSE fc

\* a collaborator call that returned
Returned ==
    /\ session' = Touch(session)
    /\ UNCHANGED <<exc, fc>>

(***************************************************************************)
(* task_account_tech -> reporter_logic -> find_changes                     *)
(***************************************************************************)
\* the message is delivered and the body entered: setup(), then
\* reporter_logic(account_name, technology_name) calls find_changes
task_account_tech ==
    /\ pc = "start"
    /\ req.task = "task_account_tech"
    /\ executions' = executions + 1
    /\ log' = <<>>
    /\ exc' = "none"
    /\ fc' = "in"
    /\ pc' = "get_monitors"
    /\ send_report' = FALSE
    /\ mons' = <<>>
    /\ sweep' = <<>>
    /\ aud' = 0
    /\ pages' = 0
    /\ done_slurping' = FALSE
    /\ UNCHANGED bootVars
    /\ UNCHANGED <<cfgVars, retries, session>>

\* monitors = get_monitors(account_name, [monitor_name], debug)
find_changes_get_monitors ==
    /\ pc = "get_monitors"
    /\ \E o \in Outcomes :
        /\ log' = log \o Called(Ev("get_monitors", req.tech, 0, FALSE), o)
        /\ IF o = "ok"
           THEN /\ mons' = get_monitors(req.tech)
                /\ pc' = "fc_loop"
                /\ Returned
           ELSE /\ Raise(o)
                /\ UNCHANGED mons
    /\ UNCHANGED bootVars
    /\ UNCHANGED <<cfgVars, retries, executions, sweep, send_report, aud, pages,
                   done_slurping>>

\* for mon in monitors: if mon.batch_support: batch_logic(...) else: slurp ...
\* after the loop: audit_changes([account_name], [monitor_name], False, debug)
find_changes_loop ==
    /\ pc = "fc_loop"
    /\ pc' = IF mons = <<>> THEN "resolve"
             ELSE IF batch[Head(mons)] THEN "slurp_list" ELSE "slurp"
    /\ UNCHANGED bootVars
    /\ UNCHANGED <<cfgVars, retries, executions, log, session, exc, fc, mons, sweep,
                   send_report, aud, pages, done_slurping>>

\* (items, exception_map) = cw.slurp()
watcher_slurp ==
    /\ pc = "slurp"
    /\ \E o \in Outcomes :
        /\ log' = log \o Called(Ev("slurp", Head(mons), 0, FALSE), o)
        /\ IF o = "ok" THEN pc' = "w_find_changes" /\ Returned ELSE Raise(o)
    /\ UNCHANGED bootVars
    /\ UNCHANGED <<cfgVars, retries, executions, mons, sweep, send_report, aud, pages,
                   done_slurping>>

\* cw.find_changes(current=items, exception_map=exception_map)
watcher_find_changes ==
    /\ pc = "w_find_changes"
    /\ \E o \in Outcomes :
        /\ log' = log \o Called(Ev("find_changes", Head(mons), 0, FALSE), o)
        /\ IF o = "ok" THEN pc' = "save" /\ Returned ELSE Raise(o)
    /\ UNCHANGED bootVars
    /\ UNCHANGED <<cfgVars, retries, executions, mons, sweep, send_report, aud, pages,
                   done_slurping>>

\* cw.save()
watcher_save ==
    /\ pc = "save"
    /\ \E o \in Outcomes :
        /\ log' = log \o Called(Ev("save", Head(mons), 0, FALSE), o)
        /\ IF o = "ok"
           THEN /\ pc' = "fc_loop"
                /\ mons' = Tail(mons)
                /\ Returned
           ELSE /\ Raise(o)
                /\ UNCHANGED mons
    /\ UNCHANGED bootVars
    /\ UNCHANGED <<cfgVars, retries, executions, sweep, send_report, aud, pages,
                   done_slurping>>

(***************************************************************************)
(* batch_logic(monitor, current_watcher, account_name, debug)              *)
(***************************************************************************)
\* a loop that is left for find_deleted_batch whatever the watcher says
AfterPageEager(done) == "find_deleted_batch"

\* while not current_watcher.done_slurping: ...; then find_deleted_batch
AfterPage(done) == IF done THEN "find_deleted_batch" ELSE "page_slurp"

\* a batch consumer that asks for a report of every page
batch_logic_send_report_on == TRUE

\* _audit_specific_changes(monitor, audit_items, False, debug)
batch_logic_send_report == FALSE

\* _, exception_map = current_watcher.slurp_list(); a non-empty exception_map
\* logs the region and returns
batch_logic_slurp_list ==
    /\ pc = "slurp_list"
    /\ \E o \in Outcomes, exception_map_len \in {0, 1}, location_len \in {2, 3},
          d \in BOOLEAN :
        IF o # "ok"
        THEN /\ log' = log \o Called(Ev("slurp_list", Head(mons), 0, FALSE), o)
             /\ Raise(o)
             /\ UNCHANGED <<mons, pages, done_slurping>>
        ELSE IF NothingFetched(exception_map_len)
        THEN /\ log' = log \o <<Ev("slurp_list", Head(mons), exception_map_len, FALSE),
                                 Ev("abort", RegionOf(location_len), 0, FALSE)>>
             /\ mons' = Tail(mons)
             /\ pc' = "fc_loop"
             /\ Returned
             /\ UNCHANGED <<pages, done_slurping>>
        ELSE /\ log' = Append(log, Ev("slurp_list", Head(mons), exception_map_len,
                                      FALSE))
             /\ pages' = 0
             /\ done_slurping' = d
             /\ pc' = AfterPage(d)
             /\ Returned
             /\ UNCHANGED mons
    /\ UNCHANGED bootVars
    /\ UNCHANGED <<cfgVars, retries, executions, sweep, send_report, aud>>

\* (items, exception_map) = current_watcher.slurp(): one more page; the
\* watcher says whether it was the last
batch_logic_slurp ==
    /\ pc = "page_slurp"
    /\ \E o \in Outcomes, d \in BOOLEAN :
        /\ log' = log \o Called(Ev("slurp", Head(mons), pages + 1, FALSE), o)
        /\ IF o = "ok"
           THEN /\ pages' = pages + 1
                /\ done_slurping' = (d \/ pages + 1 >= MaxPages)
                /\ pc' = "page_find_changes"
                /\ Returned
           ELSE /\ Raise(o)
                /\ UNCHANGED <<pages, done_slurping>>
    /\ UNCHANGED bootVars
    /\ UNCHANGED <<cfgVars, retries, executions, mons, sweep, send_report, aud>>

\* audit_items = current_watcher.find_changes(current=items, ...), then the
\* call of _audit_specific_changes(monitor, audit_items, False, debug)
batch_logic_find_changes ==
    /\ pc = "page_find_changes"
    /\ \E o \in Outcomes :
        IF o = "ok"
        THEN /\ log' = log \o <<Ev("find_changes", Head(mons), pages, FALSE),
                                 Ev("_audit_specific_changes", Head(mons), pages,
                                    batch_logic_send_report)>>
             /\ IF nAud = 0
                THEN pc' = AfterPage(done_slurping) /\ aud' = 0
                ELSE pc' = "page_audit" /\ aud' = 1
             /\ Returned
        ELSE /\ log' = log \o Called(Ev("find_changes", Head(mons), pages, FALSE), o)
             /\ Raise(o)
             /\ UNCHANGED aud
    /\ UNCHANGED bootVars
    /\ UNCHANGED <<cfgVars, retries, executions, mons, sweep, send_report, pages,
                   done_slurping>>

\* _audit_specific_changes: one auditor of monitor.auditors on audit_items;
\* a storage fault is recorded and swallowed, and ends the auditor loop
_audit_specific_changes ==
    /\ pc = "page_audit"
    /\ \E o \in AuditorOutcomes(batch_logic_send_report) :
        LET evs == AuditorEvents(Head(mons), aud, batch_logic_send_report, o.at)
        IN  CASE o.kind = "ok" ->
                   /\ log' = log \o evs
                   /\ IF aud >= nAud
                      THEN pc' = AfterPage(done_slurping) /\ aud' = 0
                      ELSE pc' = pc /\ aud' = aud + 1
                   /\ Returned
              [] o.kind \in DbErrors ->
                   /\ log' = log \o evs \o <<Ev("raises", o.kind, 0, FALSE)>>
                                 \o AuditExcept
                   /\ session' = "idle"
                   /\ pc' = AfterPage(done_slurping)
                   /\ aud' = 0
                   /\ UNCHANGED <<exc, fc>>
              [] OTHER ->
                   /\ log' = log \o evs \o <<Ev("raises", o.kind, 0, FALSE)>>
                   /\ Raise(o.kind)
                   /\ UNCHANGED aud
    /\ UNCHANGED bootVars
    /\ UNCHANGED <<cfgVars, retries, executions, mons, sweep, send_report, pages,
                   done_slurping>>

\* current_watcher.find_deleted_batch(account_name)
batch_logic_find_deleted_batch ==
    /\ pc = "find_deleted_batch"
    /\ \E o \in Outcomes :
        /\ log' = log \o Called(Ev("find_deleted_batch", Head(mons), 0, FALSE), o)
        /\ IF o = "ok"
           THEN /\ pc' = "fc_loop"
                /\ mons' = Tail(mons)
                /\ Returned
           ELSE /\ Raise(o)
                /\ UNCHANGED mons
    /\ UNCHANGED bootVars
    /\ UNCHANGED <<cfgVars, retries, executions, sweep, send_report, aud, pages,
                   done_slurping>>

(***************************************************************************)
(* audit_changes(accounts, monitor_names, send_report, debug, skip_batch)  *)
(***************************************************************************)
\* monitors = get_monitors_and_dependencies(account, monitor_names, debug)
audit_changes_resolve ==
    /\ pc = "resolve"
    /\ \E o \in Outcomes :
        /\ log' = log \o Called(Ev("get_monitors_and_dependencies", req.tech, 0,
                                 send_report), o)
        /\ IF o = "ok"
           THEN /\ sweep' = get_monitors_and_dependencies(req.tech, deps)
                /\ pc' = "sweep"
                /\ Returned
           ELSE /\ Raise(o)
                /\ UNCHANGED sweep
    /\ UNCHANGED bootVars
    /\ UNCHANGED <<cfgVars, retries, executions, mons, send_report, aud, pages,
                   done_slurping>>

\* for monitor in monitors: skip it, or _audit_changes(account,
\* monitor.auditors, send_report, debug); after the loop, back to the caller
audit_changes_loop ==
    /\ pc = "sweep"
    /\ IF sweep = <<>>
       THEN /\ pc' = IF req.task = "task_account_tech" THEN "session_close"
                     ELSE "succeeded"
            /\ UNCHANGED <<log, sweep, aud>>
       ELSE IF ShouldSkip(batch[Head(sweep)], skip_batch_default)
       THEN /\ sweep' = Tail(sweep)
            /\ UNCHANGED <<pc, log, aud>>
       ELSE /\ log' = Append(log, Ev("_audit_changes", Head(sweep), 0, send_report))
            /\ IF nAud = 0
               THEN sweep' = Tail(sweep) /\ UNCHANGED <<pc, aud>>
               ELSE pc' = "audit" /\ aud' = 1 /\ UNCHANGED sweep
    /\ UNCHANGED bootVars
    /\ UNCHANGED <<cfgVars, retries, executions, session, exc, fc, mons, send_report,
                   pages, done_slurping>>

\* _audit_changes: one auditor of the monitor; a storage fault is recorded
\* and swallowed, and ends this monitor's auditor loop
_audit_changes ==
    /\ pc = "audit"
    /\ \E o \in AuditorOutcomes(send_report) :
        LET evs == AuditorEvents(Head(sweep), aud, send_report, o.at)
        IN  CASE o.kind = "ok" ->
                   /\ log' = log \o evs
                   /\ IF aud >= nAud
                      THEN pc' = "sweep" /\ aud' = 0 /\ sweep' = Tail(sweep)
                      ELSE pc' = pc /\ aud' = aud + 1 /\ sweep' = sweep
                   /\ Returned
              [] o.kind \in DbErrors ->
                   /\ log' = log \o evs \o <<Ev("raises", o.kind, 0, FALSE)>>
                                 \o AuditExcept
                   /\ session' = "idle"
                   /\ pc' = "sweep"
                   /\ aud' = 0
                   /\ sweep' = Tail(sweep)
                   /\ UNCHANGED <<exc, fc>>
              [] OTHER ->
                   /\ log' = log \o evs \o <<Ev("raises", o.kind, 0, FALSE)>>
                   /\ Raise(o.kind)
                   /\ UNCHANGED <<aud, sweep>>
    /\ UNCHANGED bootVars
    /\ UNCHANGED <<cfgVars, retries, executions, mons, send_report, pages,
                   done_slurping>>

(***************************************************************************)
(* the rest of find_changes and reporter_logic                             *)
(***************************************************************************)
\* db.session.close(); return monitors
find_changes_close ==
    /\ pc = "session_close"
    /\ log' = Append(log, Ev("close", "-", 0, FALSE))
    /\ session' = "idle"
    /\ fc' = "returned"
    /\ pc' = "alert"
    /\ UNCHANGED bootVars
    /\ UNCHANGED <<cfgVars, retries, executions, exc, mons, sweep, send_report, aud,
                   pages, done_slurping>>

\* Alerter(monitors, account=account_name).report()
reporter_logic_alert ==
    /\ pc = "alert"
    /\ \E o \in Outcomes :
        /\ log' = log \o Called(Ev("alert", req.tech, 0, FALSE), o)
        /\ IF o = "ok" THEN pc' = "succeeded" /\ Returned ELSE Raise(o)
    /\ UNCHANGED bootVars
    /\ UNCHANGED <<cfgVars, retries, executions, mons, sweep, send_report, aud, pages,
                   done_slurping>>

\* except (OperationalError, InvalidRequestError, StatementError) as e:
\* db.session.remove(); store_exception(...); raise e.  Any other exception
\* passes through untouched.
reporter_logic_except ==
    /\ pc = "reporter_except"
    /\ IF exc \in DbErrors
       THEN /\ log' = log \o <<Ev("remove", "-", 0, FALSE),
                                Ev("store_exception", "scheduler-task-account-tech",
                                   0, FALSE)>>
            /\ session' = "idle"
       ELSE UNCHANGED <<log, session>>
    /\ pc' = "task_except"
    /\ UNCHANGED bootVars
    /\ UNCHANGED <<cfgVars, retries, executions, exc, fc, mons, sweep, send_report,
                   aud, pages, done_slurping>>

\* except Exception as e: store_exception("scheduler-exception-on-watch",
\* None, e); raise self.retry(exc=e)
task_account_tech_except ==
    /\ pc = "task_except"
    /\ log' = Append(log, Ev("store_exception", "scheduler-exception-on-watch", 0,
                             FALSE))
    /\ IF CanRetry(retries)
       THEN retries' = retries + 1 /\ pc' = "start"
       ELSE retries' = retries /\ pc' = "failed"
    /\ UNCHANGED bootVars
    /\ UNCHANGED <<cfgVars, executions, session, exc, fc, mons, sweep, send_report,
                   aud, pages, done_slurping>>

(***************************************************************************)
(* task_audit                                                              *)
(***************************************************************************)
\* setup(); audit_changes([account_name], [technology_name], True)
task_audit ==
    /\ pc = "start"
    /\ req.task = "task_audit"
    /\ executions' = executions + 1
    /\ log' = <<>>
    /\ exc' = "none"
    /\ fc' = "no"
    /\ pc' = "resolve"
    /\ send_report' = TRUE
    /\ mons' = <<>>
    /\ sweep' = <<>>
    /\ aud' = 0
    /\ pages' = 0
    /\ done_slurping' = FALSE
    /\ UNCHANGED bootVars
    /\ UNCHANGED <<cfgVars, retries, session>>

\* except Exception as e: store_exception("scheduler-exception-on-audit",
\* None, e); self.retry(exc=e)
task_audit_except ==
    /\ pc = "task_audit_except"
    /\ log' = Append(log, Ev("store_exception", "scheduler-exception-on-audit", 0,
                             FALSE))
    /\ IF CanRetry(retries)
       THEN retries' = retries + 1 /\ pc' = "start"
       ELSE retries' = retries /\ pc' = "failed"
    /\ UNCHANGED bootVars
    /\ UNCHANGED <<cfgVars, executions, session, exc, fc, mons, sweep, send_report,
                   aud, pages, done_slurping>>

Next ==
    \/ task_account_tech
    \/ find_changes_get_monitors
    \/ find_changes_loop
    \/ watcher_slurp
    \/ watcher_find_changes
    \/ watcher_save
    \/ batch_logic_slurp_list
    \/ batch_logic_slurp
    \/ batch_logic_find_changes
    \/ _audit_specific_changes
    \/ batch_logic_find_deleted_batch
    \/ audit_changes_resolve
    \/ audit_changes_loop
    \/ _audit_changes
    \/ find_changes_close
    \/ reporter_logic_alert
    \/ reporter_logic_except
    \/ task_account_tech_except
    \/ task_audit
    \/ task_audit_except

Spec == InitCycle /\ [][Next]_vars

(***************************************************************************)
(* setup_the_tasks(sender): the bootstrapper, run from the                 *)
(* on_after_configure signal of the Celery object a process creates.       *)
(***************************************************************************)
BootEv(op, task, account, tech, secs, cron) ==
    [op |-> op, task |-> task, account |-> account, tech |-> tech, secs |-> secs,
     cron |-> cron]

\* a task message, as apply_async sends it
Msg(task, account, tech) == [task |-> task, account |-> account, tech |-> tech]

\* monitor.watcher.get_interval(), in minutes
get_interval(tech) == IF tech = "sg" THEN 60 ELSE 15

\* interval = monitor.watcher.get_interval() * 60
IntervalSeconds(tech) == get_interval(tech) * 60

\* Account.query.filter(Account.third_party == False)
\*              .filter(Account.active == True)
Eligible(acct) == (acct.third_party = FALSE) /\ (acct.active = TRUE)

ActiveAccounts(accts) == SelectSeq(AccountOrder, LAMBDA a : Eligible(accts[a]))

\* Reporter(account=account.name).all_monitors
all_monitors(account) == TechOrder

\* a bootstrapper that schedules the weekday audit for every monitor
WantsAuditAlways(batch_support) == TRUE

\* "if not monitor.batch_support": the weekday audit of task_audit
WantsAudit(batch_support) == ~batch_support

\* a purge that discards nothing
PurgeNothing(q) == q

\* purge_it(): CELERY.control.purge() discards every waiting message
Purge(q) == <<>>

\* the calls setup_the_tasks makes for one monitor that has a watcher
MonitorCalls(a, t, batch_support) ==
    <<BootEv("get_interval", "-", a, t, 0, "-"),
      BootEv("apply_async", "task_account_tech", a, t, 0, "-"),
      BootEv("add_periodic_task", "task_account_tech", a, t, IntervalSeconds(t), "-")>>
        \o (IF WantsAudit(batch_support)
            THEN <<BootEv("add_periodic_task", "task_audit", a, t, 0,
                          "hour=10,day_of_week=mon-fri")>>
            ELSE <<>>)

\* crontab(hour=3, minute=0), clear_expired_exceptions.s()
JanitorCall ==
    BootEv("add_periodic_task", "clear_expired_exceptions", "-", "-", 0,
           "hour=3,minute=0")

\* the messages and the schedule entries a sequence of completed calls leaves
RECURSIVE Sent(_)
Sent(calls) ==
    IF calls = <<>> THEN <<>>
    ELSE (IF Head(calls).op = "apply_async"
          THEN <<Msg(Head(calls).task, Head(calls).account, Head(calls).tech)>>
          ELSE <<>>) \o Sent(Tail(calls))

Scheduled(calls) ==
    {calls[i] : i \in {j \in DOMAIN calls : calls[j].op = "add_periodic_task"}}

\* an except clause that logs the exception and records nothing
BootExceptNoRecord == <<BootEv("raises", "-", "-", "-", 0, "-")>>

\* except Exception as e: ...; store_exception("scheduler", None, e)
BootExcept ==
    <<BootEv("raises", "-", "-", "-", 0, "-"),
      BootEv("store_exception", "scheduler", "-", "-", 0, "-")>>

\* no task message is being executed
CycleOff ==
    /\ batch \in [Techs -> BOOLEAN]
    /\ deps = {}
    /\ nAud = 0
    /\ req = [task |-> "task_audit", tech |-> "iamrole"]
    /\ retries = 0
    /\ executions = 0
    /\ pc = "off"
    /\ log = <<>>
    /\ session = "idle"
    /\ exc = "none"
    /\ fc = "no"
    /\ mons = <<>>
    /\ sweep = <<>>
    /\ send_report = FALSE
    /\ aud = 0
    /\ pages = 0
    /\ done_slurping = FALSE

InitBoot ==
    /\ CycleOff
    /\ accounts = [a \in AccountNames |-> [active |-> FALSE, third_party |-> FALSE]]
    /\ has_watcher \in [Techs -> BOOLEAN]
    /\ queue = <<>>
    /\ purged = 0
    /\ beat = {}
    /\ bootPc = "off"
    /\ bootLog = <<>>
    /\ todoAccounts = <<>>
    /\ todoMons = <<>>
    /\ NoWorkers

\* CELERY = make_celery(app): a process starts and configures its Celery
\* object, whose schedule is empty; the broker keeps its queue, and the
\* account inventory may have changed since the last start
process_start ==
    /\ bootPc \in {"off", "done", "aborted", "crashed"}
    /\ accounts' \in [AccountNames -> [active : BOOLEAN, third_party : BOOLEAN]]
    /\ beat' = {}
    /\ bootLog' = <<>>
    /\ bootPc' = "setup"
    /\ purged' = 0
    /\ todoAccounts' = <<>>
    /\ todoMons' = <<>>
    /\ UNCHANGED <<has_watcher, queue>>
    /\ UNCHANGED <<cycleVars, workerVars>>

\* setup(): outside the try, an exception leaves setup_the_tasks
setup_the_tasks_setup ==
    /\ bootPc = "setup"
    /\ \E o \in {"ok", "raise"} :
        IF o = "ok"
        THEN /\ bootLog' = Append(bootLog, BootEv("setup", "-", "-", "-", 0, "-"))
             /\ bootPc' = "purge"
        ELSE /\ bootLog' = bootLog \o <<BootEv("setup", "-", "-", "-", 0, "-"),
                                         BootEv("raises", "-", "-", "-", 0, "-")>>
             /\ bootPc' = "crashed"
    /\ UNCHANGED <<accounts, has_watcher, queue, purged, beat, todoAccounts, todoMons>>
    /\ UNCHANGED <<cycleVars, workerVars>>

\* purge_it(): outside the try as well
purge_it ==
    /\ bootPc = "purge"
    /\ \E o \in {"ok", "raise"} :
        IF o = "ok"
        THEN /\ bootLog' = Append(bootLog, BootEv("purge", "-", "-", "-", 0, "-"))
             /\ queue' = Purge(queue)
             /\ purged' = Len(queue)
             /\ bootPc' = "query"
        ELSE /\ bootLog' = bootLog \o <<BootEv("purge", "-", "-", "-", 0, "-"),
                                         BootEv("raises", "-", "-", "-", 0, "-")>>
             /\ queue' = queue
             /\ purged' = purged
             /\ bootPc' = "crashed"
    /\ UNCHANGED <<accounts, has_watcher, beat, todoAccounts, todoMons>>
    /\ UNCHANGED <<cycleVars, workerVars>>

\* accounts = Account.query.filter(...).filter(...).all()
setup_the_tasks_query ==
    /\ bootPc = "query"
    /\ \E o \in {"ok", "raise"} :
        IF o = "ok"
        THEN /\ bootLog' = Append(bootLog, BootEv("query", "-", "-", "-", 0, "-"))
             /\ todoAccounts' = ActiveAccounts(accounts)
             /\ bootPc' = "account"
        ELSE /\ bootLog' = bootLog \o <<BootEv("query", "-", "-", "-", 0, "-")>>
                                   \o BootExcept
             /\ todoAccounts' = todoAccounts
             /\ bootPc' = "aborted"
    /\ UNCHANGED <<accounts, has_watcher, queue, purged, beat, todoMons>>
    /\ UNCHANGED <<cycleVars, workerVars>>

\* for account in accounts: rep = Reporter(account=account.name); after the
\* loop the janitor is scheduled
setup_the_tasks_account ==
    /\ bootPc = "account"
    /\ IF todoAccounts = <<>>
       THEN /\ bootPc' = "janitor"
            /\ UNCHANGED <<bootLog, todoMons>>
       ELSE \E o \in {"ok", "raise"} :
            IF o = "ok"
            THEN /\ bootLog' = Append(bootLog, BootEv("Reporter", "-",
                                                      Head(todoAccounts), "-", 0, "-"))
                 /\ todoMons' = all_monitors(Head(todoAccounts))
                 /\ bootPc' = "monitor"
            ELSE /\ bootLog' = bootLog \o <<BootEv("Reporter", "-",
                                                   Head(todoAccounts), "-", 0, "-")>>
                                       \o BootExcept
                 /\ todoMons' = todoMons
                 /\ bootPc' = "aborted"
    /\ UNCHANGED <<accounts, has_watcher, queue, purged, beat, todoAccounts>>
    /\ UNCHANGED <<cycleVars, workerVars>>

\* for monitor in rep.all_monitors: if monitor.watcher: get_interval,
\* apply_async, add_periodic_task and, if not batch_support, the audit's
\* add_periodic_task.  Call number k raises (0: none does); the calls before
\* it have taken effect.
setup_the_tasks_monitor ==
    /\ bootPc = "monitor"
    /\ IF todoMons = <<>>
       THEN /\ todoAccounts' = Tail(todoAccounts)
            /\ bootPc' = "account"
            /\ UNCHANGED <<bootLog, queue, beat, todoMons>>
       ELSE IF ~has_watcher[Head(todoMons)]
       THEN /\ todoMons' = Tail(todoMons)
            /\ UNCHANGED <<bootLog, queue, beat, todoAccounts, bootPc>>
       ELSE LET calls == MonitorCalls(Head(todoAccounts), Head(todoMons),
                                      batch[Head(todoMons)])
            IN  \E k \in 0..Len(calls) :
                LET made == IF k = 0 THEN calls ELSE SubSeq(calls, 1, k)
                    completed == IF k = 0 THEN calls ELSE SubSeq(calls, 1, k - 1)
                IN  /\ queue' = queue \o Sent(completed)
                    /\ beat' = beat \cup Scheduled(completed)
                    /\ IF k = 0
                       THEN /\ bootLog' = bootLog \o made
                            /\ todoMons' = Tail(todoMons)
                            /\ bootPc' = bootPc
                       ELSE /\ bootLog' = bootLog \o made \o BootExcept
                            /\ todoMons' = todoMons
                            /\ bootPc' = "aborted"
                    /\ UNCHANGED todoAccounts
    /\ UNCHANGED <<accounts, has_watcher, purged>>
    /\ UNCHANGED <<cycleVars, workerVars>>

\* sender.add_periodic_task(crontab(hour=3, minute=0),
\*                          clear_expired_exceptions.s())
setup_the_tasks_janitor ==
    /\ bootPc = "janitor"
    /\ \E o \in {"ok", "raise"} :
        IF o = "ok"
        THEN /\ bootLog' = Append(bootLog, JanitorCall)
             /\ beat' = beat \cup {JanitorCall}
             /\ bootPc' = "done"
        ELSE /\ bootLog' = bootLog \o <<JanitorCall>> \o BootExcept
             /\ beat' = beat
             /\ bootPc' = "aborted"
    /\ UNCHANGED <<accounts, has_watcher, queue, purged, todoAccounts, todoMons>>
    /\ UNCHANGED <<cycleVars, workerVars>>

NextBoot ==
    \/ process_start
    \/ setup_the_tasks_setup
    \/ purge_it
    \/ setup_the_tasks_query
    \/ setup_the_tasks_account
    \/ setup_the_tasks_monitor
    \/ setup_the_tasks_janitor

SpecBoot == InitBoot /\ [][NextBoot]_vars

(***************************************************************************)
(* The batch consumer alone, under the worker's progress: a task_account_  *)
(* tech message for a batch-supporting technology.  A running task body    *)
(* keeps running, and Celery redelivers a retried message.  batch_logic    *)
(* never reads the technology's name, so the message is for the one        *)
(* technology the others may depend on: its sweep has the most dependents. *)
(***************************************************************************)
InitBatch ==
    /\ InitCycle
    /\ req = [task |-> "task_account_tech", tech |-> "iamrole"]
    /\ batch[req.tech]

NextBatch ==
    \/ task_account_tech
    \/ find_changes_get_monitors
    \/ find_changes_loop
    \/ batch_logic_slurp_list
    \/ batch_logic_slurp
    \/ batch_logic_find_changes
    \/ _audit_specific_changes
    \/ batch_logic_find_deleted_batch
    \/ audit_changes_resolve
    \/ audit_changes_loop
    \/ _audit_changes
    \/ find_changes_close
    \/ reporter_logic_alert
    \/ reporter_logic_except
    \/ task_account_tech_except

SpecBatch == InitBatch /\ [][NextBatch]_vars /\ WF_vars(NextBatch)

(***************************************************************************)
(* The worker pool: the beat sends the messages of its periodic entries,   *)
(* workers take waiting messages and execute the task bodies (what a body  *)
(* does is Spec's subject; here it starts and ends).  The process that     *)
(* runs setup_the_tasks starts once, on an empty broker.                   *)
(***************************************************************************)
\* messages waiting or being executed
InFlight ==
    Len(queue) + Len(retry_queue)
        + Cardinality({w \in Workers : running[w] # Idle})

\* the tasks declared with bind=True, max_retries=3, whose except clause
\* calls self.retry
RetryingTasks == {"task_account_tech", "task_audit"}

\* a task body that refuses a pair another worker is executing
MayStartExclusive(m, r) == \A w \in Workers : r[w].msg # m

\* task_account_tech(self, account_name, technology_name): setup(), then
\* straight into reporter_logic; no lock is taken or tested
MayStart(m, r) == TRUE

\* add_periodic_task(interval or crontab, signature): whenever the entry is
\* due the beat sends the signature's message
beat_fire ==
    /\ bootPc \in {"done", "aborted", "crashed"}
    /\ InFlight < MaxPending
    /\ \E e \in beat : queue' = Append(queue, Msg(e.task, e.account, e.tech))
    /\ UNCHANGED <<accounts, has_watcher, purged, beat, bootPc, bootLog,
                   todoAccounts, todoMons, workerVars>>
    /\ UNCHANGED cycleVars

\* a worker receives a waiting message and enters the task body
worker_take(w) ==
    /\ running[w] = Idle
    /\ queue # <<>>
    /\ MayStart(Head(queue), running)
    /\ running' = [running EXCEPT ![w] = [msg |-> Head(queue), retries |-> 0]]
    /\ queue' = Tail(queue)
    /\ UNCHANGED <<accounts, has_watcher, purged, beat, bootPc, bootLog,
                   todoAccounts, todoMons, retry_queue>>
    /\ UNCHANGED cycleVars

\* a worker receives a message self.retry has re-sent
worker_take_retry(w) ==
    /\ running[w] = Idle
    /\ retry_queue # <<>>
    /\ MayStart(Head(retry_queue).msg, running)
    /\ running' = [running EXCEPT ![w] = Head(retry_queue)]
    /\ retry_queue' = Tail(retry_queue)
    /\ UNCHANGED <<accounts, has_watcher, queue, purged, beat, bootPc, bootLog,
                   todoAccounts, todoMons>>
    /\ UNCHANGED cycleVars

\* the task body ends: it returns, or its except clause calls
\* self.retry(exc=e), which re-sends the message while retries < max_retries
worker_done(w) ==
    /\ running[w] # Idle
    /\ running' = [running EXCEPT ![w] = Idle]
    /\ \E o \in {"ok", "raise"} :
          IF /\ o = "raise"
             /\ running[w].msg.task \in RetryingTasks
             /\ CanRetry(running[w].retries)
          THEN retry_queue' = Append(retry_queue,
                                     [msg |-> running[w].msg,
                                      retries |-> running[w].retries + 1])
          ELSE retry_queue' = retry_queue
    /\ UNCHANGED <<accounts, has_watcher, queue, purged, beat, bootPc, bootLog,
                   todoAccounts, todoMons>>
    /\ UNCHANGED cycleVars

\* the pool's behaviour does not depend on how many technologies are
\* watched: one technology has a watcher, batch-supporting or not
InitWorkers ==
    /\ InitBoot
    /\ has_watcher = [t \in Techs |-> t = "s3"]
    /\ batch["iamrole"] = FALSE
    /\ batch["sg"] = FALSE

NextWorkers ==
    \/ (bootPc = "off" /\ process_start)
    \/ setup_the_tasks_setup
    \/ purge_it
    \/ setup_the_tasks_query
    \/ setup_the_tasks_account
    \/ setup_the_tasks_monitor
    \/ setup_the_tasks_janitor
    \/ beat_fire
    \/ \E w \in Workers : worker_take(w)
    \/ \E w \in Workers : worker_take_retry(w)
    \/ \E w \in Workers : worker_done(w)

SpecWorkers == InitWorkers /\ [][NextWorkers]_vars

(***************************************************************************)
(* Reading the log.                                                        *)
(***************************************************************************)
Idx(op) == {i \in DOMAIN log : log[i].op = op}
Count(op) == Cardinality(Idx(op))

\* the calls batch_logic makes for a page
PageOps == {"slurp", "find_changes", "_audit_specific_changes"}

InBatch ==
    pc \in {"slurp_list", "page_slurp", "page_find_changes", "page_audit",
            "find_deleted_batch"}

\* batch_logic was called and control is no longer in it
BatchLeft == Count("slurp_list") = 1 /\ ~InBatch

\* batch_logic was called and returned to find_changes
BatchReturned == Count("slurp_list") = 1 /\ mons = <<>>

\* the audit sweep was called, and where its events start
InSweepLog(i) ==
    \E j \in 1..(i - 1) : log[j].op = "get_monitors_and_dependencies"

\* audit_changes ran through its whole monitor list and returned
SweepCompleted ==
    /\ Idx("get_monitors_and_dependencies") # {}
    /\ sweep = <<>>
    /\ pc \in {"session_close", "alert", "succeeded"}

(***************************************************************************)
(* C2  (as stated) One dispatch of task_account_tech executes its body at  *)
(* most 3 times in total, counting the first execution.                    *)
(***************************************************************************)
C2_AtMostThreeExecutions ==
    req.task = "task_account_tech" => executions <= 3

\* C2 (amended): one dispatch of task_account_tech executes its body at most
\* max_retries + 1 = 4 times, the first execution plus at most 3 retries;
\* once the retries are used up the failure surfaces and nothing runs again.
C2_AtMostFourExecutions ==
    req.task = "task_account_tech" =>
        /\ executions <= max_retries + 1
        /\ executions <= retries + 1
        /\ pc = "failed" => (executions = max_retries + 1 /\ ~ENABLED Next)

C2_Witness ==
    /\ req.task = "task_account_tech"
    /\ pc = "failed"
    /\ executions = 4

(***************************************************************************)
(* C3  The retry count of a task executor invocation (task_account_tech or *)
(* task_audit), the number of re-executions requested after the first,     *)
(* never exceeds 3.                                                        *)
(***************************************************************************)
C3_RetriesBounded ==
    /\ retries <= 3
    /\ executions <= retries + 1

C3_Witness ==
    /\ req.task = "task_audit"
    /\ retries = 3
    /\ pc = "task_audit_except"

C4_Safety ==
    /\ Count("find_deleted_batch") <= 1
    /\ \A i \in Idx("find_deleted_batch") :
        /\ done_slurping
        /\ \A j \in DOMAIN log :
              \/ log[j].op = "slurp_list"
              \/ log[j].op \in PageOps
              \/ (log[j].op = "auditor" /\ log[j].arg = log[i].arg)
              => j < i
        /\ pages > 0 =>
              \E j \in 1..(i - 1) :
                  log[j] = Ev("_audit_specific_changes", log[i].arg, pages, FALSE)
    /\ (BatchReturned /\ Count("abort") = 0) => Count("find_deleted_batch") = 1

C5_NothingFetchedNoAction ==
    \A i \in Idx("slurp_list") :
        log[i].n > 0 =>
            /\ Len(log) > i
            /\ log[i + 1].op = "abort"
            /\ Len(log) > i + 1 => log[i + 2].op # "raises"
            /\ mons = <<>>
            /\ \A j \in DOMAIN log :
                  /\ log[j].op \notin PageOps \cup {"save", "find_deleted_batch"}
                  /\ log[j].op \in {"auditor", "_audit_changes", "report"}
                        => log[j].arg # log[i].arg

C5_Witness ==
    /\ \E i \in Idx("slurp_list") : log[i].n > 0
    /\ Count("_audit_changes") > 0
    /\ pc = "succeeded"

(***************************************************************************)
(* C6  Within one find_changes cycle a batch-supporting monitor audited    *)
(* page by page is never audited again by audit_changes -> _audit_changes: *)
(* skip_batch is honored for every resolved monitor.                       *)
(***************************************************************************)
C6_SkipBatchHonored ==
    LET paged == {log[j].arg : j \in Idx("_audit_specific_changes")}
    IN  \A i \in DOMAIN log :
            (log[i].op = "_audit_changes"
                \/ (log[i].op = "auditor" /\ InSweepLog(i))) =>
                /\ ~batch[log[i].arg]
                /\ log[i].arg \notin paged

C6_Witness ==
    /\ Count("_audit_specific_changes") > 0
    /\ Count("_audit_changes") > 0
    /\ SweepCompleted

(***************************************************************************)
(* C7  Whenever technology A is audited by audit_changes and monitor B     *)
(* depends on A, directly or transitively, B's auditors are run in that    *)
(* same sweep, for every such B.                                           *)
(***************************************************************************)
C7_DependentsAudited ==
    (SweepCompleted /\ nAud > 0 /\ \E i \in Idx("_audit_changes") : log[i].arg = req.tech) =>
        \A B \in Closure({req.tech}, deps) :
            \E i \in Idx("_audit_changes") : log[i].arg = B

(***************************************************************************)
(* C8  A storage fault raised while auditing monitor M in an audit_changes *)
(* sweep produces exactly one ExceptionRecord "scheduler-audit-changes",   *)
(* resets the session, is not propagated, and the sweep still processes    *)
(* every monitor that follows M.                                           *)
(***************************************************************************)
\* the monitors after M in the sweep's list
RECURSIVE After(_, _)
After(seq, m) ==
    IF seq = <<>> THEN <<>>
    ELSE IF Head(seq) = m THEN Tail(seq) ELSE After(Tail(seq), m)

\* log[i] is a storage fault raised by an auditor of the sweep
SweepDbFault(i) ==
    /\ log[i].op = "raises"
    /\ log[i].arg \in DbErrors
    /\ log[i - 1].op \in {"auditor", "report"}
    /\ InSweepLog(i)

C8_SweepFaultSwallowed ==
    \A i \in DOMAIN log :
        SweepDbFault(i) =>
            LET M == log[i - 1].arg
                rest == After(get_monitors_and_dependencies(req.tech, deps), M)
            IN  /\ Len(log) >= i + 2
                /\ log[i + 1].op = "remove"
                /\ log[i + 2] = Ev("store_exception", "scheduler-audit-changes", 0, FALSE)
                /\ Len(log) > i + 2 => log[i + 3].op \notin {"store_exception", "remove"}
                /\ Len(log) = i + 2 =>
                      /\ pc \in {"sweep", "session_close", "succeeded"}
                      /\ exc = "none"
                      /\ session = "idle"
                      /\ \E k \in 1..(Len(rest) + 1) : sweep = SubSeq(rest, k, Len(rest))
                /\ SweepCompleted =>
                      \A k \in DOMAIN rest :
                          ~ShouldSkip(batch[rest[k]], skip_batch_default) =>
                              \E j \in Idx("_audit_changes") :
                                  j > i /\ log[j].arg = rest[k]

C8_Witness ==
    /\ SweepCompleted
    /\ \E i \in DOMAIN log :
          /\ SweepDbFault(i)
          /\ \E j \in Idx("_audit_changes") : j > i

(***************************************************************************)
(* C9  find_changes releases the data session before control leaves it,    *)
(* on every exit path: normal return and exit by any exception.            *)
(***************************************************************************)
C9_SessionReleasedOnExit ==
    [][(fc = "in" /\ fc' \in {"returned", "raised"}) => session' = "idle"]_vars

(***************************************************************************)
(* Reading the bootstrapper's log.                                         *)
(***************************************************************************)
BootCount(op, task, a, t) ==
    Cardinality({i \in DOMAIN bootLog :
                    /\ bootLog[i].op = op
                    /\ bootLog[i].task = task
                    /\ bootLog[i].account = a
                    /\ bootLog[i].tech = t})

QueueCount(m) == Cardinality({i \in DOMAIN queue : queue[i] = m})

\* the calls of a log that returned
RECURSIVE DoneCalls(_)
DoneCalls(l) ==
    IF l = <<>> THEN <<>>
    ELSE IF Len(l) >= 2 /\ l[2].op = "raises" THEN DoneCalls(Tail(Tail(l)))
    ELSE <<Head(l)>> \o DoneCalls(Tail(l))

\* purge_it has returned in the current pass
PurgeReturned ==
    \E j \in DOMAIN bootLog :
        /\ bootLog[j].op = "purge"
        /\ (j = Len(bootLog) \/ bootLog[j + 1].op # "raises")

Registration(e) == e.op \in {"apply_async", "add_periodic_task"}

(***************************************************************************)
(* C1  After a pass of setup_the_tasks that raised nothing, every          *)
(* (account, technology) pair of an active, first-party account and of a   *)
(* monitor that has a watcher has exactly one immediate and exactly one    *)
(* periodic registration of task_account_tech, and a weekly task_audit     *)
(* registration if and only if the monitor is not batch-supporting.        *)
(***************************************************************************)
C1_OneRegistrationPerPair ==
    bootPc = "done" =>
        \A a \in AccountNames, t \in Techs :
            (accounts[a].active /\ ~accounts[a].third_party /\ has_watcher[t]) =>
                /\ BootCount("apply_async", "task_account_tech", a, t) = 1
                /\ QueueCount(Msg("task_account_tech", a, t)) = 1
                /\ BootCount("add_periodic_task", "task_account_tech", a, t) = 1
                /\ Cardinality({e \in beat : /\ e.task = "task_account_tech"
                                              /\ e.account = a
                                              /\ e.tech = t
                                              /\ e.secs = get_interval(t) * 60}) = 1
                /\ BootCount("add_periodic_task", "task_audit", a, t)
                      = (IF batch[t] THEN 0 ELSE 1)
                /\ Cardinality({e \in beat : /\ e.task = "task_audit"
                                              /\ e.account = a
                                              /\ e.tech = t})
                      = (IF batch[t] THEN 0 ELSE 1)

C1_Witness ==
    /\ bootPc = "done"
    /\ accounts["prod"].active /\ ~accounts["prod"].third_party
    /\ accounts["dev"].active /\ ~accounts["dev"].third_party
    /\ \E t, u \in Techs : has_watcher[t] /\ has_watcher[u] /\ batch[t] /\ ~batch[u]
    /\ \E t \in Techs : ~has_watcher[t]

(***************************************************************************)
(* C10  (as stated) After any sequence of bootstrapper passes the pending  *)
(* registrations equal the set produced by the last pass alone.            *)
(***************************************************************************)
C10_PendingIsLastPass ==
    bootPc \in {"done", "aborted", "crashed"} =>
        /\ queue = Sent(DoneCalls(bootLog))
        /\ beat = Scheduled(DoneCalls(bootLog))

\* C10 (amended): setup_the_tasks registers nothing before purge_it has
\* returned, and from then on the waiting messages and the periodic schedule
\* are exactly the registrations the current pass has made, so nothing of a
\* prior topology is left.  A pass that raises in setup() or in purge_it()
\* registers nothing and leaves the earlier waiting messages in the queue.
C10_PurgedBeforeRegistering ==
    /\ \A i \in DOMAIN bootLog :
          Registration(bootLog[i]) =>
              \E j \in 1..(i - 1) :
                  bootLog[j].op = "purge" /\ bootLog[j + 1].op # "raises"
    /\ PurgeReturned =>
          /\ queue = Sent(DoneCalls(bootLog))
          /\ beat = Scheduled(DoneCalls(bootLog))
    /\ ~PurgeReturned => beat = {}

C10_Witness ==
    /\ bootPc = "done"
    /\ purged > Len(queue)
    /\ queue # <<>>

(***************************************************************************)
(* C11  (as stated) On any exception raised during a pass of               *)
(* setup_the_tasks the pass aborts, exactly one ExceptionRecord            *)
(* "scheduler" is recorded, the exception does not leave setup_the_tasks,  *)
(* and the pass is not retried.                                            *)
(***************************************************************************)
BootRaises == {i \in DOMAIN bootLog : bootLog[i].op = "raises"}
BootRecords == {i \in DOMAIN bootLog : bootLog[i].op = "store_exception"}

\* the steps of a pass, without the start of a new process
PassStep ==
    \/ setup_the_tasks_setup
    \/ purge_it
    \/ setup_the_tasks_query
    \/ setup_the_tasks_account
    \/ setup_the_tasks_monitor
    \/ setup_the_tasks_janitor

C11_AnyExceptionRecorded ==
    BootRaises # {} =>
        /\ bootPc = "aborted"
        /\ Cardinality(BootRecords) = 1
        /\ bootLog[Len(bootLog)] = BootEv("store_exception", "scheduler", "-", "-", 0, "-")

\* C11 (amended): an exception raised during the enumeration (the account
\* query, the account and monitor loops, the janitor's registration) aborts
\* the pass: exactly one ExceptionRecord "scheduler" is recorded, nothing is
\* called after it, the exception does not leave setup_the_tasks and the
\* pass takes no further step.  An exception raised by setup() or by
\* purge_it(), before the enumeration, leaves setup_the_tasks with no
\* ExceptionRecord.
C11_EnumerationExceptionRecorded ==
    /\ Cardinality(BootRaises) <= 1
    /\ \A i \in BootRaises :
          IF PurgeReturned
          THEN /\ bootPc = "aborted"
               /\ Len(bootLog) = i + 1
               /\ bootLog[i + 1] = BootEv("store_exception", "scheduler", "-", "-", 0, "-")
               /\ Cardinality(BootRecords) = 1
               /\ ~ENABLED PassStep
          ELSE /\ bootPc = "crashed"
               /\ Len(bootLog) = i
               /\ BootRecords = {}
    /\ BootRaises = {} => (BootRecords = {} /\ bootPc \notin {"aborted", "crashed"})

C11_Witness ==
    /\ bootPc = "aborted"
    /\ queue # <<>>
    /\ \E e \in beat : e.task = "task_audit"

(***************************************************************************)
(* C19  When a pass of setup_the_tasks aborts on an exception raised while  *)
(* enumerating an account or a monitor, the messages purged at the start   *)
(* of the pass stay purged, every registration made earlier in the pass    *)
(* (immediate, periodic and audit-only) stays in place, and the exception  *)
(* janitor is not registered in that pass.                                 *)
(***************************************************************************)
\* call i of the pass returned
BootReturned(i) == i = Len(bootLog) \/ bootLog[i + 1].op # "raises"

C19_AbortKeepsEarlierRegistrations ==
    bootPc = "aborted" =>
        /\ \A i \in DOMAIN bootLog :
              (bootLog[i].op = "apply_async" /\ BootReturned(i)) =>
                  QueueCount(Msg(bootLog[i].task, bootLog[i].account,
                                 bootLog[i].tech)) = 1
        /\ Len(queue) = Cardinality({i \in DOMAIN bootLog :
                                        /\ bootLog[i].op = "apply_async"
                                        /\ BootReturned(i)})
        /\ \A i \in DOMAIN bootLog :
              (bootLog[i].op = "add_periodic_task" /\ BootReturned(i)) =>
                  bootLog[i] \in beat
        /\ \A e \in beat :
              \E i \in DOMAIN bootLog : bootLog[i] = e /\ BootReturned(i)
        /\ JanitorCall \notin beat

C19_Witness ==
    /\ bootPc = "aborted"
    /\ purged > 0
    /\ \E i \in DOMAIN bootLog :
          /\ bootLog[i].op = "raises"
          /\ bootLog[i - 1].op \in {"Reporter", "get_interval", "apply_async",
                                    "add_periodic_task"}
          /\ bootLog[i - 1] # JanitorCall
    /\ \E e \in beat : e.task = "task_audit"
    /\ \E e \in beat : e.task = "task_account_tech"
    /\ queue # <<>>

(***************************************************************************)
(* C12  task_audit performs no fetch and runs audit_changes with           *)
(* send_report = True; an exception that escapes the audit is recorded     *)
(* once with source "scheduler-exception-on-audit", ends the current       *)
(* execution, and the whole unit is retried under the retry bound of       *)
(* task_account_tech.                                                      *)
(***************************************************************************)
\* what only the watch cycle calls
WatchOps ==
    {"get_monitors", "slurp_list", "slurp", "find_changes", "save",
     "find_deleted_batch", "_audit_specific_changes", "close", "alert"}

Records(source) ==
    {i \in DOMAIN log : log[i] = Ev("store_exception", source, 0, FALSE)}

C12_AuditOnlyRecordsAndRetries ==
    req.task = "task_audit" =>
        /\ \A i \in DOMAIN log :
              /\ log[i].op \notin WatchOps
              /\ log[i].op \in {"get_monitors_and_dependencies", "_audit_changes",
                                "auditor"} => log[i].sr = TRUE
              /\ log[i].op = "store_exception" =>
                    log[i].arg \in {"scheduler-exception-on-audit",
                                    "scheduler-audit-changes"}
        /\ (pc \notin {"start", "resolve"} \/ exc # "none") =>
              log[1] = Ev("get_monitors_and_dependencies", req.tech, 0, TRUE)
        /\ exc # "none" =>
              /\ pc \in {"task_audit_except", "start", "failed"}
              /\ pc = "task_audit_except" =>
                    Records("scheduler-exception-on-audit") = {}
              /\ pc \in {"start", "failed"} =>
                    Records("scheduler-exception-on-audit") = {Len(log)}
              /\ pc = "start" => (retries = executions /\ retries <= max_retries)
              /\ pc = "failed" =>
                    (retries = max_retries /\ executions = max_retries + 1)
        /\ exc = "none" => Records("scheduler-exception-on-audit") = {}

C12_Witness ==
    /\ req.task = "task_audit"
    /\ pc = "start"
    /\ retries = 2
    /\ exc = "other"
    /\ Count("report") > 0

(***************************************************************************)
(* C13  In a batch_logic run that is not aborted and in which no call      *)
(* raises, there are as many _audit_specific_changes invocations as pages  *)
(* fetched; the k-th one comes after the k-th page's slurp and             *)
(* find_changes and before the (k+1)-th slurp, gets the items find_changes *)
(* produced for page k with send_report = False, and the whole sequence is *)
(* followed by exactly one find_deleted_batch.                             *)
(***************************************************************************)
\* where the call of op for page k is in the log (0: nowhere)
PageIdx(op, k) ==
    LET S == {i \in Idx(op) : log[i].n = k}
    IN  IF S = {} THEN 0 ELSE CHOOSE i \in S : TRUE

\* batch_logic returned, without aborting and without a call that raised
CleanBatchRun ==
    /\ req.task = "task_account_tech"
    /\ BatchReturned
    /\ Count("abort") = 0
    /\ \A i \in Idx("raises") : InSweepLog(i) \/ log[i - 1].op = "alert"

C13_OneAuditPerPage ==
    CleanBatchRun =>
        /\ Count("slurp") = pages
        /\ Count("find_changes") = pages
        /\ Count("_audit_specific_changes") = pages
        /\ \A k \in 1..pages :
              LET f == PageIdx("slurp", k)
                  c == PageIdx("find_changes", k)
                  a == PageIdx("_audit_specific_changes", k)
              IN  /\ 0 < f /\ f < c /\ c < a
                  /\ a = c + 1
                  /\ log[a] = Ev("_audit_specific_changes", req.tech, k, FALSE)
                  /\ \A j \in (a + 1)..Len(log) :
                        (log[j].op = "auditor" /\ ~InSweepLog(j)) => ~log[j].sr
                  /\ k < pages => a < PageIdx("slurp", k + 1)
                  /\ \A d \in Idx("find_deleted_batch") : a < d
        /\ Count("find_deleted_batch") = 1
        /\ Count("slurp_list") = 1

C13_Witness ==
    /\ CleanBatchRun
    /\ pages = MaxPages
    /\ nAud > 0
    /\ Count("raises") = 0
    /\ pc = "succeeded"

PageDbFault(i) ==
    /\ log[i].op = "raises"
    /\ log[i].arg \in DbErrors
    /\ log[i - 1].op \in {"auditor", "report"}
    /\ ~InSweepLog(i)

\* the page whose audit log[i] belongs to
PageOf(i) ==
    LET S == {j \in Idx("_audit_specific_changes") : j < i}
    IN  log[CHOOSE j \in S : \A l \in S : l <= j].n

C15_PageFaultSwallowed ==
    LET faults == {i \in DOMAIN log : PageDbFault(i)}
    IN  /\ \A i \in faults :
              /\ Len(log) >= i + 2
              /\ log[i + 1].op = "remove"
              /\ log[i + 2] = Ev("store_exception", "scheduler-audit-changes", 0,
                                 FALSE)
              /\ Len(log) = i + 2 =>
                    /\ pc = (IF done_slurping THEN "find_deleted_batch"
                             ELSE "page_slurp")
                    /\ exc = "none"
                    /\ session = "idle"
                    /\ pages = PageOf(i)
              /\ Len(log) > i + 2 =>
                    \/ log[i + 3] = Ev("slurp", req.tech, PageOf(i) + 1, FALSE)
                    \/ log[i + 3] = Ev("find_deleted_batch", req.tech, 0, FALSE)
        /\ (faults # {} /\ BatchReturned) =>
              /\ Count("find_deleted_batch") = 1
              /\ Count("slurp") = pages
              /\ Count("_audit_specific_changes") = pages
              /\ \A d \in Idx("find_deleted_batch") : \A i \in faults : d > i

C15_Witness ==
    /\ BatchReturned
    /\ pages = MaxPages
    /\ \E i \in DOMAIN log : PageDbFault(i) /\ PageOf(i) = 1
    /\ Count("find_deleted_batch") = 1
    /\ pc = "succeeded"

(***************************************************************************)
(* C17  After batch_logic aborts on a total first-fetch failure,           *)
(* find_changes does not stop: it runs the audit sweep, which audits every *)
(* non-batch monitor of the dependency closure, closes the session and     *)
(* returns normally; the alerter is invoked, and task_account_tech         *)
(* completes as a success with no ExceptionRecord and no retry.            *)
(***************************************************************************)
\* batch_logic aborted on its first fetch and no call has raised
AbortedOnly == Count("abort") = 1 /\ Count("raises") = 0

C17_AbortedBatchStillSweeps ==
    AbortedOnly =>
        /\ req.task = "task_account_tech" /\ batch[req.tech]
        /\ \A i \in Idx("abort") :
              /\ Len(log) = i => pc \in {"fc_loop", "resolve"}
              /\ Len(log) > i =>
                    log[i + 1] = Ev("get_monitors_and_dependencies", req.tech, 0, FALSE)
        /\ pc \notin {"reporter_except", "task_except", "failed"}
        /\ exc = "none"
        /\ Count("store_exception") = 0
        /\ executions = retries + 1
        /\ pc \in {"session_close", "alert", "succeeded"} =>
              /\ \A m \in Closure({req.tech}, deps) :
                    Cardinality({i \in Idx("_audit_changes") : log[i].arg = m})
                        = (IF batch[m] THEN 0 ELSE 1)
              /\ \A i \in Idx("auditor") : ~batch[log[i].arg] /\ ~log[i].sr
        /\ pc \in {"alert", "succeeded"} => (fc = "returned" /\ Count("close") = 1)
        /\ pc = "alert" => (session = "idle" /\ log[Len(log)].op = "close")
        /\ pc = "succeeded" =>
              /\ log[Len(log)] = Ev("alert", req.tech, 0, FALSE)
              /\ log[Len(log) - 1].op = "close"
              /\ ~ENABLED Next

C17_Witness ==
    /\ AbortedOnly
    /\ pc = "succeeded"
    /\ retries = 0
    /\ nAud > 0
    /\ Count("_audit_changes") = 2

(***************************************************************************)
(* C18  An exception an auditor raises that is not one of the three        *)
(* storage errors is not swallowed by the audit sweep: it stops the sweep, *)
(* so every monitor after the failing one is left un-audited in that       *)
(* execution, and it reaches the task executor, which records it and       *)
(* retries the whole unit (the watch task from its fetch on).              *)
(***************************************************************************)
\* log[i] is another exception raised by an auditor of the sweep
SweepOtherFault(i) ==
    /\ log[i].op = "raises"
    /\ log[i].arg = "other"
    /\ log[i - 1].op \in {"auditor", "report"}
    /\ InSweepLog(i)

\* the source the running task's except clause records under
TaskSource ==
    IF req.task = "task_account_tech" THEN "scheduler-exception-on-watch"
    ELSE "scheduler-exception-on-audit"

C18_OtherFaultStopsSweep ==
    \A i \in DOMAIN log :
        SweepOtherFault(i) =>
            LET M == log[i - 1].arg
                rest == After(get_monitors_and_dependencies(req.tech, deps), M)
            IN  /\ exc = log[i].arg
                /\ pc \in {"reporter_except", "task_except", "task_audit_except",
                            "start", "failed"}
                /\ sweep = <<M>> \o rest
                /\ \A j \in Idx("_audit_changes") : j < i
                /\ \A k \in DOMAIN rest :
                      \A j \in Idx("_audit_changes") : log[j].arg # rest[k]
                /\ \A j \in Idx("remove") : j < i
                /\ \A j \in Records("scheduler-audit-changes") : j < i
                /\ Records("scheduler-task-account-tech") = {}
                /\ pc \in {"reporter_except", "task_except", "task_audit_except"} =>
                      Len(log) = i
                /\ pc \in {"start", "failed"} =>
                      (Len(log) = i + 1 /\ Records(TaskSource) = {i + 1})
                /\ pc = "start" => (retries = executions /\ ENABLED Next)
                /\ pc = "failed" => retries = max_retries

C18_Witness ==
    /\ pc = "start"
    /\ req.task = "task_account_tech"
    /\ retries = 1
    /\ \E i \in DOMAIN log : SweepOtherFault(i) /\ sweep # <<log[i - 1].arg>>

(***************************************************************************)
(* C20  In any sequence of scheduled task executions no report is rendered *)
(* or delivered for a batch-supporting monitor: the watch cycle and        *)
(* batch_logic audit with send_report = False, and task_audit, the only    *)
(* caller that passes send_report = True, runs the sweep with skip_batch   *)
(* = True, which skips every batch-supporting monitor.                     *)
(***************************************************************************)
C20_NoReportForBatchMonitors ==
    \A i \in DOMAIN log :
        /\ log[i].op = "report" =>
              (~batch[log[i].arg] /\ req.task = "task_audit" /\ InSweepLog(i))
        /\ log[i].sr =>
              /\ req.task = "task_audit"
              /\ log[i].op \in {"get_monitors_and_dependencies", "_audit_changes",
                                "auditor", "report"}
              /\ log[i].op # "get_monitors_and_dependencies" => ~batch[log[i].arg]
        /\ log[i].op = "_audit_specific_changes" => ~log[i].sr

C20_Witness ==
    /\ req.task = "task_audit"
    /\ SweepCompleted
    /\ Count("report") > 0
    /\ \E m \in Closure({req.tech}, deps) : batch[m]
    /\ executions = 2

(***************************************************************************)
(* C16  There is no mutual exclusion between task executions: a state in   *)
(* which two executions of task_account_tech for the same (account,        *)
(* technology) pair are in progress at once is reachable, and nothing      *)
(* blocks or rejects the second execution: an idle worker can always       *)
(* start the next waiting message, whatever the other workers execute.     *)
(***************************************************************************)
C16_NoMutualExclusion ==
    \A w \in Workers :
        running[w] = Idle =>
            /\ queue # <<>> => ENABLED worker_take(w)
            /\ retry_queue # <<>> => ENABLED worker_take_retry(w)

C16_Witness ==
    \E w, v \in Workers :
        /\ w # v
        /\ running[w].msg = running[v].msg
        /\ running[w].msg.task = "task_account_tech"
        /\ running[w].retries = 0
        /\ running[v].retries = 0

\* the same, a run and its retry
C16_WitnessRetry ==
    \E w, v \in Workers :
        /\ w # v
        /\ running[w].msg = running[v].msg
        /\ running[w].msg.task = "task_account_tech"
        /\ running[w].retries = 0
        /\ running[v].retries > 0

====
